---- MODULE Spec2Model ----
(***************************************************************************)
(* Model of the 2210-jobs data-integrity verifier                          *)
(* (src/test_data_integrity.py), of the title classifier it calls         *)
(* (src/classify_it_specialist.py), of the jobs fetcher that writes the    *)
(* dataset and the metrics (src/fetch_2210_jobs.py) and of the GitHub      *)
(* activity fetcher (src/fetch_github_activity.py).                        *)
(*                                                                         *)
(* The three files the verifier reads or writes are the state:            *)
(*   parquet   the latest data/2210_jobs_*.parquet                         *)
(*   metrics   data/2210_metrics.json                                      *)
(*   baseline  data_baseline.json                                          *)
(* calls lists the functions run_tests has called so far in a run;         *)
(* job_title is the argument of a call of is_it_specialist.               *)
(* jobs is the list of jobs the USAJobs search returned.  request is the   *)
(* call of make_github_request in progress, activities and failed_agencies *)
(* are the locals of the GitHub fetcher's main, summary is the file        *)
(* deploy/data/github_activity.json.                                       *)
(* A DataFrame is a set of present columns and a bag of rows: no function *)
(* of the verifier reads the row order (it builds sets, maxima and         *)
(* counts), but len(df) counts duplicates.  The wall-clock stamp           *)
(* created_at of a baseline is read by no code and is left out.           *)
(*                                                                         *)
(* Spec        runs of run_tests with new datasets and metrics between     *)
(* SpecRun     one run of run_tests from any files                         *)
(* SpecLoss, SpecDate, SpecCutoff, SpecMetrics                             *)
(*             one call of one check over wider inputs                     *)
(* SpecClassify  one call of is_it_specialist                              *)
(* SpecFetch   the jobs fetcher's main, then a check of what it wrote      *)
(* SpecRequest one call of make_github_request                             *)
(* SpecGithub  the GitHub fetcher's main                                   *)
(***************************************************************************)
EXTENDS Integers, Sequences, FiniteSets, Bags, TLC

VARIABLES parquet, metrics, baseline, pc, all_passed, results, exit_code,
          start_baseline, reported, calls, job_title,
          jobs, request, activities, failed_agencies, summary

\* the state of the two fetchers
fetcherVars == <<jobs, request, activities, failed_agencies, summary>>

vars == <<parquet, metrics, baseline, pc, all_passed, results, exit_code,
          start_baseline, reported, calls, job_title, fetcherVars>>

(***************************************************************************)
(* Bounds                                                                  *)
(***************************************************************************)
MaxRows == 2
MaxDay == 2
MaxCallRows == 2

(***************************************************************************)
(* Values                                                                  *)
(***************************************************************************)
NULL == "NULL"

\* day number of 2025-10-01, counted from 2025-09-30 = day 0
cutoff_date == 1

current_filter == "Jobs posted since October 1, 2025"

old_filter == "Jobs posted since October 1, 2024"

ID_COL == "MatchedObjectDescriptor_PositionID"

URI_COL == "MatchedObjectDescriptor_PositionURI"

TITLE_COL == "MatchedObjectDescriptor_PositionTitle"

START_COL == "MatchedObjectDescriptor_PositionStartDate"

PUB_COL == "MatchedObjectDescriptor_PublicationStartDate"

\* A date cell of the table: null, a string that is no date, or a date.
NullCell == [k |-> "null", v |-> 0]

TextCell == [k |-> "text", v |-> 0]

DateCell(d) == [k |-> "date", v |-> d]

\* pandas' NaT / Python's None for a timestamp
NaT == -1

\* no call of make_github_request is in progress
NoRequest ==
    [max_retries |-> 0, attempt |-> 0, replies |-> <<>>, outcome |-> "idle", status_code |-> 0]

\* deploy/data/github_activity.json has not been written
NoSummary == [written |-> FALSE, agencies |-> <<>>]

\* neither fetcher has run
FetchersIdle ==
    /\ jobs = <<>>
    /\ request = NoRequest
    /\ activities = <<>>
    /\ failed_agencies = <<>>
    /\ summary = NoSummary

\* pd.to_datetime(x, errors='coerce'): what does not parse becomes NaT
to_datetime(c) == IF c.k = "date" THEN c.v ELSE NaT

\* Timestamp.isoformat(): the string a later pd.to_datetime reads back
isoformat(d) == DateCell(d)

Max(S) == CHOOSE x \in S : \A y \in S : y <= x

Min(a, b) == IF a <= b THEN a ELSE b

(***************************************************************************)
(* Strings are sequences of one-character strings.                         *)
(***************************************************************************)
UpperChars == <<"A","B","C","D","E","F","G","H","I","J","K","L","M",
                "N","O","P","Q","R","S","T","U","V","W","X","Y","Z">>

LowerChars == <<"a","b","c","d","e","f","g","h","i","j","k","l","m",
                "n","o","p","q","r","s","t","u","v","w","x","y","z">>

LowerOf == [c \in {UpperChars[i] : i \in 1..26} |->
               LowerChars[CHOOSE i \in 1..26 : UpperChars[i] = c]]

lower_char(c) == IF c \in DOMAIN LowerOf THEN LowerOf[c] ELSE c

\* str.lower()
lower(s) == [i \in 1..Len(s) |-> lower_char(s[i])]

\* sub in s
Contains(sub, s) ==
    \E i \in 0..(Len(s) - Len(sub)) :
        \A j \in 1..Len(sub) : s[i + j] = sub[j]

\* s.startswith(p)
startswith(s, p) ==
    /\ Len(p) <= Len(s)
    /\ \A j \in 1..Len(p) : s[j] = p[j]

\* s.endswith(p)
endswith(s, p) ==
    /\ Len(p) <= Len(s)
    /\ \A j \in 1..Len(p) : s[Len(s) - Len(p) + j] = p[j]

\* the character U+0131, LATIN SMALL LETTER DOTLESS I: str.lower() leaves it
\* as it is and str.upper() maps it to "I"
DotlessI == "U+0131"

UpperOf == [c \in {LowerChars[i] : i \in 1..26} \cup {DotlessI} |->
               IF c = DotlessI THEN "I"
               ELSE UpperChars[CHOOSE i \in 1..26 : LowerChars[i] = c]]

upper_char(c) == IF c \in DOMAIN UpperOf THEN UpperOf[c] ELSE c

\* str.upper()
upper(s) == [i \in 1..Len(s) |-> upper_char(s[i])]

\* None as a title cell
NoTitle == <<NULL>>

\* faulty variant: the "information technology" rule is missing
is_it_specialist_NoInfoTech(title) ==
    IF title = NoTitle \/ title = <<>> THEN FALSE
    ELSE LET title_lower == lower(title)
             has_it == \/ Contains(<<"i","t"," ">>, title_lower)
                       \/ startswith(title_lower, <<"i","t">>)
                       \/ endswith(title_lower, <<"i","t">>)
                       \/ Contains(<<" ","i","t"," ">>, title_lower)
             has_specialist ==
                 Contains(<<"s","p","e","c","i","a","l","i","s","t">>, title_lower)
             has_info_tech ==
                 Contains(<<"i","n","f","o","r","m","a","t","i","o","n"," ",
                            "t","e","c","h","n","o","l","o","g","y">>, title_lower)
         IN IF Contains(<<"i","t","s","p","e","c">>, title_lower) THEN TRUE
            ELSE IF Contains(<<"i","t">>, title_lower)
                    /\ Contains(<<"s","p","e","c">>, title_lower) THEN TRUE
            ELSE has_it /\ has_specialist

\* faulty variant: "it" or "spec" is enough
is_it_specialist_ItOrSpec(title) ==
    IF title = NoTitle \/ title = <<>> THEN FALSE
    ELSE LET title_lower == lower(title)
             has_it == \/ Contains(<<"i","t"," ">>, title_lower)
                       \/ startswith(title_lower, <<"i","t">>)
                       \/ endswith(title_lower, <<"i","t">>)
                       \/ Contains(<<" ","i","t"," ">>, title_lower)
             has_specialist ==
                 Contains(<<"s","p","e","c","i","a","l","i","s","t">>, title_lower)
             has_info_tech ==
                 Contains(<<"i","n","f","o","r","m","a","t","i","o","n"," ",
                            "t","e","c","h","n","o","l","o","g","y">>, title_lower)
         IN IF Contains(<<"i","t","s","p","e","c">>, title_lower) THEN TRUE
            ELSE IF Contains(<<"i","t">>, title_lower)
                    \/ Contains(<<"s","p","e","c">>, title_lower) THEN TRUE
            ELSE (has_it /\ has_specialist) \/ (has_info_tech /\ has_specialist)

\* faulty variant: the title is matched as written
is_it_specialist_NoLower(title) ==
    IF title = NoTitle \/ title = <<>> THEN FALSE
    ELSE LET title_lower == title
             has_it == \/ Contains(<<"i","t"," ">>, title_lower)
                       \/ startswith(title_lower, <<"i","t">>)
                       \/ endswith(title_lower, <<"i","t">>)
                       \/ Contains(<<" ","i","t"," ">>, title_lower)
             has_specialist ==
                 Contains(<<"s","p","e","c","i","a","l","i","s","t">>, title_lower)
             has_info_tech ==
                 Contains(<<"i","n","f","o","r","m","a","t","i","o","n"," ",
                            "t","e","c","h","n","o","l","o","g","y">>, title_lower)
         IN IF Contains(<<"i","t","s","p","e","c">>, title_lower) THEN TRUE
            ELSE IF Contains(<<"i","t">>, title_lower)
                    /\ Contains(<<"s","p","e","c">>, title_lower) THEN TRUE
            ELSE (has_it /\ has_specialist) \/ (has_info_tech /\ has_specialist)

\* faulty variant: "it" and "spec" apart are not enough
is_it_specialist_NoLooseRule(title) ==
    IF title = NoTitle \/ title = <<>> THEN FALSE
    ELSE LET title_lower == lower(title)
             has_it == \/ Contains(<<"i","t"," ">>, title_lower)
                       \/ startswith(title_lower, <<"i","t">>)
                       \/ endswith(title_lower, <<"i","t">>)
                       \/ Contains(<<" ","i","t"," ">>, title_lower)
             has_specialist ==
                 Contains(<<"s","p","e","c","i","a","l","i","s","t">>, title_lower)
             has_info_tech ==
                 Contains(<<"i","n","f","o","r","m","a","t","i","o","n"," ",
                            "t","e","c","h","n","o","l","o","g","y">>, title_lower)
         IN IF Contains(<<"i","t","s","p","e","c">>, title_lower) THEN TRUE
            ELSE (has_it /\ has_specialist) \/ (has_info_tech /\ has_specialist)

\* classify_it_specialist.is_it_specialist
is_it_specialist(title) ==
    IF title = NoTitle \/ title = <<>> THEN FALSE
    ELSE LET title_lower == lower(title)
             has_it == \/ Contains(<<"i","t"," ">>, title_lower)
                       \/ startswith(title_lower, <<"i","t">>)
                       \/ endswith(title_lower, <<"i","t">>)
                       \/ Contains(<<" ","i","t"," ">>, title_lower)
             has_specialist ==
                 Contains(<<"s","p","e","c","i","a","l","i","s","t">>, title_lower)
             has_info_tech ==
                 Contains(<<"i","n","f","o","r","m","a","t","i","o","n"," ",
                            "t","e","c","h","n","o","l","o","g","y">>, title_lower)
         IN IF Contains(<<"i","t","s","p","e","c">>, title_lower) THEN TRUE
            ELSE IF Contains(<<"i","t">>, title_lower)
                    /\ Contains(<<"s","p","e","c">>, title_lower) THEN TRUE
            ELSE (has_it /\ has_specialist) \/ (has_info_tech /\ has_specialist)

\* faulty variant: the rules are evaluated for a null or empty title too
rules_evaluated_NoGuard(title) ==
    LET title_lower == lower(title)
    IN IF Contains(<<"i","t","s","p","e","c">>, title_lower)
       THEN {"itspec"}
       ELSE IF Contains(<<"i","t">>, title_lower)
               /\ Contains(<<"s","p","e","c">>, title_lower)
       THEN {"itspec", "it and spec"}
       ELSE {"itspec", "it and spec", "has_it", "has_specialist", "has_info_tech"}

\* the substring rules is_it_specialist evaluates for a title, in the order
\* of its statements: none when the first return is taken
rules_evaluated(title) ==
    IF title = NoTitle \/ title = <<>> THEN {}
    ELSE LET title_lower == lower(title)
         IN IF Contains(<<"i","t","s","p","e","c">>, title_lower)
            THEN {"itspec"}
            ELSE IF Contains(<<"i","t">>, title_lower)
                    /\ Contains(<<"s","p","e","c">>, title_lower)
            THEN {"itspec", "it and spec"}
            ELSE {"itspec", "it and spec", "has_it", "has_specialist", "has_info_tech"}

(***************************************************************************)
(* DataFrames and files                                                    *)
(***************************************************************************)
\* A URI is the list of its '/'-separated parts; <<>> is a null cell.
\* '/job/' in uri
HasJobPart(uri) == \E i \in 2..(Len(uri) - 1) : uri[i] = "job"

\* uri.split('/')[-1]
LastPart(uri) == uri[Len(uri)]

EmptyDF == [cols |-> {}, rows |-> EmptyBag]

\* glob found no data/2210_jobs_*.parquet
MissingFile == [status |-> "missing", df |-> EmptyDF]

\* the file exists and pd.read_parquet raises
CorruptFile == [status |-> "corrupt", df |-> EmptyDF]

ParquetFile(df) == [status |-> "ok", df |-> df]

\* the file data_baseline.json does not exist: load_baseline returns None
NoBaseline ==
    [exists |-> FALSE, job_ids |-> {}, total_jobs |-> 0,
     most_recent_it_specialist_date |-> NullCell, data_filter |-> NULL]

\* the number of rows of the bag that lie in S
RowCount(rows, S) == BagCardinality([r \in S |-> rows[r]])

\* len(df)
DfLen(df) == BagCardinality(df.rows)

\* the job identifiers of a DataFrame: the PositionID column when the table
\* has one, otherwise the last part of every PositionURI holding '/job/'
ExtractIds(df) ==
    IF ID_COL \in df.cols
    THEN {r.id : r \in {x \in DOMAIN df.rows : x.id # NULL}}
    ELSE IF URI_COL \in df.cols
    THEN {LastPart(r.uri) :
             r \in {x \in DOMAIN df.rows : x.uri # <<>> /\ HasJobPart(x.uri)}}
    ELSE {}

\* the rows classified as IT specialist
ItJobs(df) == {r \in DOMAIN df.rows : is_it_specialist(r.title)}

\* the parseable dates of the two date columns over the rows S
ValidDates(df, S) ==
    (IF START_COL \in df.cols
     THEN {to_datetime(r.start) : r \in S} \ {NaT} ELSE {})
    \cup
    (IF PUB_COL \in df.cols
     THEN {to_datetime(r.pub) : r \in S} \ {NaT} ELSE {})

\* the latest date of the IT-specialist rows over both date columns, NaT
\* when there is no title column, no such row or no parseable date
MaxItDate(df) ==
    IF TITLE_COL \notin df.cols THEN NaT
    ELSE LET dates == ValidDates(df, ItJobs(df))
         IN IF dates = {} THEN NaT ELSE Max(dates)

\* save_baseline's argument in create_initial_baseline
Snapshot(df) ==
    LET most_recent_date == MaxItDate(df)
    IN [exists |-> TRUE,
        job_ids |-> ExtractIds(df),
        total_jobs |-> DfLen(df),
        most_recent_it_specialist_date |->
            IF most_recent_date = NaT THEN NullCell ELSE isoformat(most_recent_date),
        data_filter |-> NULL]

\* faulty variant: a read error saves the snapshot of an empty table
create_initial_baseline_SavesOnError(pq, old) ==
    IF pq.status = "ok" THEN Snapshot(pq.df) ELSE Snapshot(EmptyDF)

\* create_initial_baseline(latest_file): the baseline file afterwards, given
\* the baseline file before.  A read error is caught and nothing is saved.
create_initial_baseline(pq, old) ==
    IF pq.status = "ok" THEN Snapshot(pq.df) ELSE old

\* faulty variant: the summary saves nothing
update_baseline_Skipped(pq, old) == old

\* update_baseline()
update_baseline(pq, old) ==
    IF pq.status # "missing" THEN create_initial_baseline(pq, old) ELSE old

(***************************************************************************)
(* The five checks                                                         *)
(***************************************************************************)
\* faulty variant: a readable file without rows is valid
test_parquet_file_validity_NoEmptyCheck(pq) ==
    IF pq.status = "missing" THEN FALSE
    ELSE IF pq.status = "corrupt" THEN FALSE
    ELSE TRUE

test_parquet_file_validity(pq) ==
    IF pq.status = "missing" THEN FALSE
    ELSE IF pq.status = "corrupt" THEN FALSE
    ELSE DfLen(pq.df) # 0

\* baseline.get('data_filter', 'Unknown')
baseline_filter(b) == IF b.data_filter = NULL THEN "Unknown" ELSE b.data_filter

\* the number of identifiers the loss report prints
ReportLimit == 10

\* list(lost_jobs)[:10]: a set lists its members in no fixed order
FirstLost(lost) ==
    {S \in SUBSET lost : Cardinality(S) = Min(ReportLimit, Cardinality(lost))}

\* faulty variant: the set difference is taken the wrong way round
test_no_job_loss_Swapped(b, pq) ==
    IF pq.status = "missing"
    THEN {[ok |-> FALSE, baseline |-> b, reported |-> {}]}
    ELSE IF ~b.exists
    THEN {[ok |-> TRUE, baseline |-> create_initial_baseline(pq, b), reported |-> {}]}
    ELSE IF baseline_filter(b) # current_filter
    THEN {[ok |-> TRUE, baseline |-> create_initial_baseline(pq, b), reported |-> {}]}
    ELSE IF pq.status = "corrupt"
    THEN {[ok |-> FALSE, baseline |-> b, reported |-> {}]}
    ELSE LET current_ids == ExtractIds(pq.df)
             baseline_ids == b.job_ids
             lost_jobs == current_ids \ baseline_ids
         IN IF current_ids = {}
            THEN {[ok |-> FALSE, baseline |-> b, reported |-> {}]}
            ELSE IF lost_jobs # {}
            THEN {[ok |-> FALSE, baseline |-> b, reported |-> S] :
                     S \in FirstLost(lost_jobs)}
            ELSE {[ok |-> TRUE, baseline |-> b, reported |-> {}]}

\* test_no_job_loss(): the possible outcomes, each the returned value, the
\* baseline file afterwards and the lost identifiers printed
\* faulty variant: a dataset without any identifier is compared like any other
test_no_job_loss_NoIdCheck(b, pq) ==
    IF pq.status = "missing"
    THEN {[ok |-> FALSE, baseline |-> b, reported |-> {}]}
    ELSE IF ~b.exists
    THEN {[ok |-> TRUE, baseline |-> create_initial_baseline(pq, b), reported |-> {}]}
    ELSE IF baseline_filter(b) # current_filter
    THEN {[ok |-> TRUE, baseline |-> create_initial_baseline(pq, b), reported |-> {}]}
    ELSE IF pq.status = "corrupt"
    THEN {[ok |-> FALSE, baseline |-> b, reported |-> {}]}
    ELSE LET current_ids == ExtractIds(pq.df)
             lost_jobs == b.job_ids \ current_ids
         IN IF lost_jobs # {}
            THEN {[ok |-> FALSE, baseline |-> b, reported |-> S] :
                     S \in FirstLost(lost_jobs)}
            ELSE {[ok |-> TRUE, baseline |-> b, reported |-> {}]}

\* faulty variant: a different filter description does not reset the baseline
test_no_job_loss_NoReset(b, pq) ==
    IF pq.status = "missing"
    THEN {[ok |-> FALSE, baseline |-> b, reported |-> {}]}
    ELSE IF ~b.exists
    THEN {[ok |-> TRUE, baseline |-> create_initial_baseline(pq, b), reported |-> {}]}
    ELSE IF pq.status = "corrupt"
    THEN {[ok |-> FALSE, baseline |-> b, reported |-> {}]}
    ELSE LET current_ids == ExtractIds(pq.df)
             lost_jobs == b.job_ids \ current_ids
         IN IF current_ids = {}
            THEN {[ok |-> FALSE, baseline |-> b, reported |-> {}]}
            ELSE IF lost_jobs # {}
            THEN {[ok |-> FALSE, baseline |-> b, reported |-> S] :
                     S \in FirstLost(lost_jobs)}
            ELSE {[ok |-> TRUE, baseline |-> b, reported |-> {}]}

test_no_job_loss(b, pq) ==
    IF pq.status = "missing"
    THEN {[ok |-> FALSE, baseline |-> b, reported |-> {}]}
    ELSE IF ~b.exists
    THEN {[ok |-> TRUE, baseline |-> create_initial_baseline(pq, b), reported |-> {}]}
    ELSE IF baseline_filter(b) # current_filter
    THEN {[ok |-> TRUE, baseline |-> create_initial_baseline(pq, b), reported |-> {}]}
    ELSE IF pq.status = "corrupt"
    THEN {[ok |-> FALSE, baseline |-> b, reported |-> {}]}
    ELSE LET current_ids == ExtractIds(pq.df)
             baseline_ids == b.job_ids
             lost_jobs == baseline_ids \ current_ids
         IN IF current_ids = {}
            THEN {[ok |-> FALSE, baseline |-> b, reported |-> {}]}
            ELSE IF lost_jobs # {}
            THEN {[ok |-> FALSE, baseline |-> b, reported |-> S] :
                     S \in FirstLost(lost_jobs)}
            ELSE {[ok |-> TRUE, baseline |-> b, reported |-> {}]}

\* faulty variant: an unchanged latest date fails too
test_date_progression_OrEqual(b, pq) ==
    IF pq.status = "missing" \/ ~b.exists THEN TRUE
    ELSE IF pq.status = "corrupt" THEN FALSE
    ELSE IF TITLE_COL \notin pq.df.cols THEN TRUE
    ELSE LET it_jobs == ItJobs(pq.df)
             dates == ValidDates(pq.df, it_jobs)
             baseline_max_date_str == b.most_recent_it_specialist_date
         IN IF it_jobs = {} THEN TRUE
            ELSE IF dates = {} THEN TRUE
            ELSE IF baseline_max_date_str = NullCell THEN TRUE
            ELSE IF Max(dates) <= to_datetime(baseline_max_date_str) THEN FALSE
            ELSE TRUE

\* faulty variant: IT-specialist rows without a parseable date fail the check
test_date_progression_NoDatesFails(b, pq) ==
    IF pq.status = "missing" \/ ~b.exists THEN TRUE
    ELSE IF pq.status = "corrupt" THEN FALSE
    ELSE IF TITLE_COL \notin pq.df.cols THEN TRUE
    ELSE LET it_jobs == ItJobs(pq.df)
             dates == ValidDates(pq.df, it_jobs)
             baseline_max_date_str == b.most_recent_it_specialist_date
         IN IF it_jobs = {} THEN TRUE
            ELSE IF dates = {} THEN FALSE
            ELSE IF baseline_max_date_str = NullCell THEN TRUE
            ELSE IF Max(dates) < to_datetime(baseline_max_date_str) THEN FALSE
            ELSE TRUE

test_date_progression(b, pq) ==
    IF pq.status = "missing" \/ ~b.exists THEN TRUE
    ELSE IF pq.status = "corrupt" THEN FALSE
    ELSE IF TITLE_COL \notin pq.df.cols THEN TRUE
    ELSE LET it_jobs == ItJobs(pq.df)
             dates == ValidDates(pq.df, it_jobs)
             baseline_max_date_str == b.most_recent_it_specialist_date
         IN IF it_jobs = {} THEN TRUE
            ELSE IF dates = {} THEN TRUE
            ELSE IF baseline_max_date_str = NullCell THEN TRUE
            ELSE IF Max(dates) < to_datetime(baseline_max_date_str) THEN FALSE
            ELSE TRUE

\* faulty variant: a date on the cutoff counts as a violation
Violations_OrEqual(df, col) ==
    IF col \notin df.cols THEN 0
    ELSE RowCount(df.rows,
             {r \in DOMAIN df.rows :
                 LET d == to_datetime(IF col = START_COL THEN r.start ELSE r.pub)
                 IN d # NaT /\ d <= cutoff_date})

\* the number of parseable cells of a date column before the cutoff
Violations(df, col) ==
    IF col \notin df.cols THEN 0
    ELSE RowCount(df.rows,
             {r \in DOMAIN df.rows :
                 LET d == to_datetime(IF col = START_COL THEN r.start ELSE r.pub)
                 IN d # NaT /\ d < cutoff_date})

test_october_filter(pq) ==
    IF pq.status = "missing" THEN FALSE
    ELSE IF pq.status = "corrupt" THEN FALSE
    ELSE ~ (Violations(pq.df, START_COL) + Violations(pq.df, PUB_COL) > 0)

required_fields ==
    {"total_2210_jobs", "it_specialist_jobs", "it_specialist_percentage",
     "most_recent_it_specialist"}

recent_keys == {"title", "date_posted", "link"}

\* data/2210_metrics.json does not exist
MissingMetrics ==
    [status |-> "missing", fields |-> {}, recent |-> [kind |-> "null", keys |-> {}]]

\* the file exists and json.load raises
MalformedMetrics ==
    [status |-> "malformed", fields |-> {}, recent |-> [kind |-> "null", keys |-> {}]]

\* faulty variant: it_specialist_percentage is not required
test_metrics_json_NoPercentage(m) ==
    IF m.status = "missing" THEN [ok |-> FALSE, named |-> {}]
    ELSE IF m.status = "malformed" THEN [ok |-> FALSE, named |-> {}]
    ELSE LET missing_fields ==
                 (required_fields \ {"it_specialist_percentage"}) \ m.fields
         IN IF missing_fields # {} THEN [ok |-> FALSE, named |-> missing_fields]
            ELSE IF m.recent.kind # "object" THEN [ok |-> FALSE, named |-> {}]
            ELSE IF ~ (recent_keys \subseteq m.recent.keys)
            THEN [ok |-> FALSE, named |-> {}]
            ELSE [ok |-> TRUE, named |-> {}]

\* test_metrics_json(): the returned value and the missing fields printed
test_metrics_json(m) ==
    IF m.status = "missing" THEN [ok |-> FALSE, named |-> {}]
    ELSE IF m.status = "malformed" THEN [ok |-> FALSE, named |-> {}]
    ELSE LET missing_fields == required_fields \ m.fields
         IN IF missing_fields # {} THEN [ok |-> FALSE, named |-> missing_fields]
            ELSE IF m.recent.kind # "object" THEN [ok |-> FALSE, named |-> {}]
            ELSE IF ~ (recent_keys \subseteq m.recent.keys)
            THEN [ok |-> FALSE, named |-> {}]
            ELSE [ok |-> TRUE, named |-> {}]

(***************************************************************************)
(* Inputs                                                                  *)
(***************************************************************************)
AllCols == {ID_COL, URI_COL, TITLE_COL, START_COL, PUB_COL}

Days == 0..MaxDay

DateCells == {NullCell} \cup {DateCell(d) : d \in Days}

TitleItSpec == <<"I","T"," ","S","p","e","c","i","a","l","i","s","t">>

TitleManager == <<"I","T"," ","M","a","n","a","g","e","r">>

UriJob3 == <<"https:", "", "www.usajobs.gov:443", "job", "3">>

UriSearch == <<"https:", "", "www.usajobs.gov:443", "search">>

\* a row without the cells of the columns the table lacks
Project(r, cols) ==
    [id |-> IF ID_COL \in cols THEN r.id ELSE NULL,
     uri |-> IF URI_COL \in cols THEN r.uri ELSE <<>>,
     title |-> IF TITLE_COL \in cols THEN r.title ELSE NoTitle,
     start |-> IF START_COL \in cols THEN r.start ELSE NullCell,
     pub |-> IF PUB_COL \in cols THEN r.pub ELSE NullCell]

BagOfSeq(s) ==
    [r \in {s[i] : i \in DOMAIN s} |-> Cardinality({i \in DOMAIN s : s[i] = r})]

\* the tables of at most k rows drawn from recs, over each column set
Tables(colsets, recs, k) ==
    {[cols |-> c, rows |-> BagOfSeq([i \in DOMAIN s |-> Project(s[i], c)])] :
        c \in colsets, s \in UNION {[1..n -> recs] : n \in 0..k}}

\* a baseline file some earlier version or a person wrote
ExternalBaselines(ids, dates, filters) ==
    {[exists |-> TRUE, job_ids |-> i, total_jobs |-> Cardinality(i),
      most_recent_it_specialist_date |-> d, data_filter |-> f] :
        i \in SUBSET ids, d \in dates, f \in filters}

GoodMetrics ==
    [status |-> "ok", fields |-> required_fields \cup {"generated_at", "data_filter"},
     recent |-> [kind |-> "object", keys |-> recent_keys]]

\* the inputs of the runs of Spec
SpecRecords ==
    [id : {"1", "2"}, uri : {<<>>}, title : {TitleItSpec, TitleManager},
     start : {DateCell(d) : d \in Days}, pub : {NullCell}]

SpecFiles ==
    {MissingFile, CorruptFile}
    \cup {ParquetFile(t) : t \in Tables({AllCols}, SpecRecords, MaxRows)}

SpecMetricsFiles == {MissingMetrics, GoodMetrics}

SpecBaselines ==
    {NoBaseline}
    \cup ExternalBaselines({"1", "2"}, {NullCell, DateCell(MaxDay)},
                            {current_filter, old_filter})

\* the inputs of the single runs of SpecRun
MaxRunRows == 2

\* the day before the cutoff, the cutoff and the day after
RunDays == (cutoff_date - 1)..(cutoff_date + 1)

RunRecords ==
    [id : {"1", "2"}, uri : {UriJob3}, title : {TitleItSpec, TitleManager},
     start : {DateCell(d) : d \in RunDays},
     pub : {NullCell, DateCell(cutoff_date + 1)}]

RunColSets ==
    {AllCols, AllCols \ {ID_COL}, AllCols \ {ID_COL, URI_COL}, AllCols \ {TITLE_COL}}

RunFiles ==
    {MissingFile, CorruptFile}
    \cup {ParquetFile(t) : t \in Tables(RunColSets, RunRecords, MaxRunRows)}

RunBaselines ==
    {NoBaseline}
    \cup ExternalBaselines({"1", "2"}, {NullCell, DateCell(cutoff_date + 1)},
                            {current_filter, old_filter, NULL})

(***************************************************************************)
(* run_tests, one action per step                                          *)
(***************************************************************************)
NoExit == -1

Idle == pc \in {"idle", "done"}

\* run_tests begins: all_passed = True
Begin ==
    /\ pc = "idle"
    /\ pc' = "test1"
    /\ all_passed' = TRUE
    /\ results' = <<>>
    /\ exit_code' = NoExit
    /\ start_baseline' = baseline
    /\ reported' = {}
    /\ calls' = <<>>
    /\ UNCHANGED <<parquet, metrics, baseline, job_title, fetcherVars>>

\* faulty variant: a failed first check goes straight to the summary
Test1_StopsOnFailure ==
    /\ pc = "test1"
    /\ LET r == test_parquet_file_validity(parquet)
       IN /\ results' = Append(results, r)
          /\ all_passed' = IF ~r THEN FALSE ELSE all_passed
          /\ pc' = IF r THEN "test2" ELSE "summary"
    /\ calls' = Append(calls, "test_parquet_file_validity")
    /\ UNCHANGED <<parquet, metrics, baseline, exit_code, start_baseline, reported, job_title, fetcherVars>>

\* 1. parquet file validity
Test1 ==
    /\ pc = "test1"
    /\ LET r == test_parquet_file_validity(parquet)
       IN /\ results' = Append(results, r)
          /\ all_passed' = IF ~r THEN FALSE ELSE all_passed
    /\ pc' = "test2"
    /\ calls' = Append(calls, "test_parquet_file_validity")
    /\ UNCHANGED <<parquet, metrics, baseline, exit_code, start_baseline, reported, job_title, fetcherVars>>

\* 2. no job loss
Test2 ==
    /\ pc = "test2"
    /\ \E o \in test_no_job_loss(baseline, parquet) :
          /\ results' = Append(results, o.ok)
          /\ all_passed' = IF ~o.ok THEN FALSE ELSE all_passed
          /\ baseline' = o.baseline
          /\ reported' = o.reported
    /\ pc' = "test3"
    /\ calls' = Append(calls, "test_no_job_loss")
    /\ UNCHANGED <<parquet, metrics, exit_code, start_baseline, job_title, fetcherVars>>

\* 3. date progression
Test3 ==
    /\ pc = "test3"
    /\ LET r == test_date_progression(baseline, parquet)
       IN /\ results' = Append(results, r)
          /\ all_passed' = IF ~r THEN FALSE ELSE all_passed
    /\ pc' = "test4"
    /\ calls' = Append(calls, "test_date_progression")
    /\ UNCHANGED <<parquet, metrics, baseline, exit_code, start_baseline, reported, job_title, fetcherVars>>

\* 4. October filter
Test4 ==
    /\ pc = "test4"
    /\ LET r == test_october_filter(parquet)
       IN /\ results' = Append(results, r)
          /\ all_passed' = IF ~r THEN FALSE ELSE all_passed
    /\ pc' = "test5"
    /\ calls' = Append(calls, "test_october_filter")
    /\ UNCHANGED <<parquet, metrics, baseline, exit_code, start_baseline, reported, job_title, fetcherVars>>

\* faulty variant: the result of the fifth check does not reach all_passed
Test5_ResultDropped ==
    /\ pc = "test5"
    /\ results' = Append(results, test_metrics_json(metrics).ok)
    /\ all_passed' = all_passed
    /\ pc' = "summary"
    /\ calls' = Append(calls, "test_metrics_json")
    /\ UNCHANGED <<parquet, metrics, baseline, exit_code, start_baseline, reported, job_title, fetcherVars>>

\* 5. metrics JSON
Test5 ==
    /\ pc = "test5"
    /\ LET r == test_metrics_json(metrics).ok
       IN /\ results' = Append(results, r)
          /\ all_passed' = IF ~r THEN FALSE ELSE all_passed
    /\ pc' = "summary"
    /\ calls' = Append(calls, "test_metrics_json")
    /\ UNCHANGED <<parquet, metrics, baseline, exit_code, start_baseline, reported, job_title, fetcherVars>>

\* the summary: update the baseline and return 0, or return 1
Summary ==
    /\ pc = "summary"
    /\ IF all_passed
       THEN /\ baseline' = update_baseline(parquet, baseline)
            /\ exit_code' = 0
       ELSE /\ baseline' = baseline
            /\ exit_code' = 1
    /\ pc' = "done"
    /\ calls' = IF all_passed THEN Append(calls, "update_baseline") ELSE calls
    /\ UNCHANGED <<parquet, metrics, all_passed, results, start_baseline, reported, job_title, fetcherVars>>

RunNext == Begin \/ Test1 \/ Test2 \/ Test3 \/ Test4 \/ Test5 \/ Summary

\* between two runs: no run is in progress and none has reported
Between ==
    /\ pc' = "idle"
    /\ all_passed' = TRUE
    /\ results' = <<>>
    /\ exit_code' = NoExit
    /\ start_baseline' = baseline
    /\ reported' = {}
    /\ calls' = <<>>
    /\ UNCHANGED <<job_title, fetcherVars>>

\* fetch_2210_jobs.main saves a new dataset
WriteParquet ==
    /\ Idle
    /\ \E f \in SpecFiles : parquet' = f
    /\ Between
    /\ UNCHANGED <<metrics, baseline>>

\* generate_metrics_json saves the metrics, or the file goes missing
WriteMetrics ==
    /\ Idle
    /\ \E m \in SpecMetricsFiles : metrics' = m
    /\ Between
    /\ UNCHANGED <<parquet, baseline>>

Init ==
    /\ parquet \in SpecFiles
    /\ metrics \in SpecMetricsFiles
    /\ baseline \in SpecBaselines
    /\ pc = "idle"
    /\ all_passed = TRUE
    /\ results = <<>>
    /\ exit_code = NoExit
    /\ start_baseline = baseline
    /\ reported = {}
    /\ calls = <<>>
    /\ job_title = NoTitle
    /\ FetchersIdle

Next == RunNext \/ WriteParquet \/ WriteMetrics

Spec == Init /\ [][Next]_vars

\* one run of run_tests over any dataset, metrics file and baseline
InitRun ==
    /\ parquet \in RunFiles
    /\ metrics \in SpecMetricsFiles
    /\ baseline \in RunBaselines
    /\ pc = "idle"
    /\ all_passed = TRUE
    /\ results = <<>>
    /\ exit_code = NoExit
    /\ start_baseline = baseline
    /\ reported = {}
    /\ calls = <<>>
    /\ job_title = NoTitle
    /\ FetchersIdle

SpecRun == InitRun /\ [][RunNext]_vars

(***************************************************************************)
(* Single calls of the checks, over wider inputs                           *)
(***************************************************************************)
Returned(ok, b, named) ==
    /\ pc' = "returned"
    /\ results' = <<ok>>
    /\ baseline' = b
    /\ reported' = named
    /\ UNCHANGED <<parquet, metrics, all_passed, exit_code, start_baseline, calls, job_title, fetcherVars>>

InitCall(files, metricsFiles, baselines) ==
    /\ parquet \in files
    /\ metrics \in metricsFiles
    /\ baseline \in baselines
    /\ pc = "call"
    /\ all_passed = TRUE
    /\ results = <<>>
    /\ exit_code = NoExit
    /\ start_baseline = baseline
    /\ reported = {}
    /\ calls = <<>>
    /\ job_title = NoTitle
    /\ FetchersIdle

\* test_no_job_loss() alone
UriJob1 == <<"https:", "", "www.usajobs.gov:443", "job", "1">>

ManyIds == {"1", "2", "3", "4", "5", "6", "7", "8", "9", "10", "11", "12"}

LossRecords ==
    [id : {NULL, "1", "2"}, uri : {<<>>, UriJob1, UriJob3, UriSearch},
     title : {TitleItSpec}, start : {DateCell(cutoff_date)}, pub : {NullCell}]

LossColSets == {AllCols, AllCols \ {ID_COL}, AllCols \ {ID_COL, URI_COL}}

LossFiles ==
    {MissingFile, CorruptFile}
    \cup {ParquetFile(t) : t \in Tables(LossColSets, LossRecords, MaxCallRows)}

LossBaselines ==
    {NoBaseline}
    \cup ExternalBaselines({"1", "2", "3"}, {NullCell},
                            {current_filter, old_filter, NULL})
    \cup {[exists |-> TRUE, job_ids |-> ManyIds, total_jobs |-> Cardinality(ManyIds),
            most_recent_it_specialist_date |-> NullCell,
            data_filter |-> current_filter]}

CallNoJobLoss ==
    /\ pc = "call"
    /\ \E o \in test_no_job_loss(baseline, parquet) :
          Returned(o.ok, o.baseline, o.reported)

SpecLoss ==
    InitCall(LossFiles, {GoodMetrics}, LossBaselines) /\ [][CallNoJobLoss]_vars

\* test_date_progression() alone
DateRecords ==
    [id : {"1"}, uri : {<<>>}, title : {TitleItSpec, TitleManager},
     start : DateCells \cup {TextCell},
     pub : {NullCell, TextCell, DateCell(0), DateCell(MaxDay)}]

DateColSets ==
    {AllCols, AllCols \ {TITLE_COL}, AllCols \ {START_COL},
     AllCols \ {START_COL, PUB_COL}}

DateFiles ==
    {MissingFile, CorruptFile}
    \cup {ParquetFile(t) : t \in Tables(DateColSets, DateRecords, MaxCallRows)}

DateBaselines ==
    {NoBaseline} \cup ExternalBaselines({}, DateCells, {current_filter})

CallDateProgression ==
    /\ pc = "call"
    /\ Returned(test_date_progression(baseline, parquet), baseline, {})

SpecDate ==
    InitCall(DateFiles, {GoodMetrics}, DateBaselines) /\ [][CallDateProgression]_vars

\* test_october_filter() alone
CutoffRecords ==
    [id : {"1"}, uri : {<<>>}, title : {TitleItSpec},
     start : DateCells \cup {TextCell}, pub : DateCells \cup {TextCell}]

CutoffColSets ==
    {AllCols, AllCols \ {START_COL}, AllCols \ {PUB_COL},
     AllCols \ {START_COL, PUB_COL}}

CutoffFiles ==
    {MissingFile, CorruptFile}
    \cup {ParquetFile(t) : t \in Tables(CutoffColSets, CutoffRecords, MaxCallRows)}

CallOctoberFilter ==
    /\ pc = "call"
    /\ Returned(test_october_filter(parquet), baseline, {})

SpecCutoff ==
    InitCall(CutoffFiles, {GoodMetrics}, {NoBaseline}) /\ [][CallOctoberFilter]_vars

\* test_metrics_json() alone
MetricsFiles ==
    {MissingMetrics, MalformedMetrics}
    \cup {[status |-> "ok", fields |-> f, recent |-> [kind |-> "null", keys |-> {}]] :
             f \in SUBSET required_fields}
    \cup {[status |-> "ok", fields |-> f, recent |-> [kind |-> "object", keys |-> k]] :
             f \in {g \in SUBSET required_fields : "most_recent_it_specialist" \in g},
             k \in SUBSET recent_keys}

CallMetricsJson ==
    /\ pc = "call"
    /\ LET r == test_metrics_json(metrics)
       IN Returned(r.ok, baseline, r.named)

SpecMetrics ==
    InitCall({MissingFile}, MetricsFiles, {NoBaseline}) /\ [][CallMetricsJson]_vars

\* is_it_specialist() alone.  Titles are made of up to MaxTokens words.
MaxTokens == 3

Tokens ==
    {<<"I","T">>, <<"i","t">>, <<" ">>, <<"S","p","e","c">>,
     <<"S","p","e","c","i","a","l","i","s","t">>,
     <<"I","n","f","o","r","m","a","t","i","o","n"," ",
       "T","e","c","h","n","o","l","o","g","y">>,
     <<"M","a","n","a","g","e","r">>,
     <<DotlessI, "t">>}

RECURSIVE TitlesUpTo(_)
TitlesUpTo(n) ==
    IF n = 0 THEN {<<>>}
    ELSE LET shorter == TitlesUpTo(n - 1)
         IN shorter \cup {p \o t : p \in shorter, t \in Tokens}

Titles == {NoTitle} \cup TitlesUpTo(MaxTokens)

\* is_it_specialist(title)
Classify ==
    /\ pc = "call"
    /\ Returned(is_it_specialist(job_title), baseline, rules_evaluated(job_title))

\* is_it_specialist of a string, of its upper() and of its lower()
ClassifyCases ==
    /\ pc = "call"
    /\ job_title # NoTitle
    /\ pc' = "cases"
    /\ results' = <<is_it_specialist(job_title),
                    is_it_specialist(upper(job_title)),
                    is_it_specialist(lower(job_title))>>
    /\ UNCHANGED <<parquet, metrics, baseline, all_passed, exit_code,
                   start_baseline, reported, calls, job_title, fetcherVars>>

InitClassify ==
    /\ parquet = MissingFile
    /\ metrics = MissingMetrics
    /\ baseline = NoBaseline
    /\ pc = "call"
    /\ all_passed = TRUE
    /\ results = <<>>
    /\ exit_code = NoExit
    /\ start_baseline = baseline
    /\ reported = {}
    /\ calls = <<>>
    /\ job_title \in Titles
    /\ FetchersIdle

SpecClassify == InitClassify /\ [][Classify \/ ClassifyCases]_vars

(***************************************************************************)
(* The jobs fetcher (fetch_2210_jobs.py).  A job of the search result is   *)
(* the set of keys its MatchedObjectDescriptor has and their values; a     *)
(* null value and a missing key both read as None through dict.get.        *)
(***************************************************************************)
MaxJobs == 2

\* matched_obj.get("PositionStartDate") or matched_obj.get("PublicationStartDate")
date_str(job) == IF job.start # NullCell THEN job.start ELSE job.pub

\* the loop body of filter_jobs_since_october: strptime raises ValueError
\* for a string that is no date and the job is skipped; so is a job without
\* any date; otherwise the job is kept when the date is on or after the cutoff
KeepsJob(job) ==
    LET s == date_str(job)
    IN s.k = "date" /\ s.v >= cutoff_date

filter_jobs_since_october(js) == SelectSeq(js, KeepsJob)

\* pd.DataFrame(flattened_jobs), as it reads back from the parquet file: a
\* column for every key some job has, null where a job lacks the key
DataFrame(js) ==
    [cols |-> UNION {js[i].keys : i \in DOMAIN js},
     rows |-> BagOfSeq([i \in DOMAIN js |->
                           [id |-> js[i].id, uri |-> js[i].uri, title |-> js[i].title,
                            start |-> js[i].start, pub |-> js[i].pub]])]

\* the dictionary generate_metrics_json dumps: the keys are fixed, the values
\* of most_recent_it_specialist may be None
WrittenMetrics ==
    [status |-> "ok",
     fields |-> {"generated_at", "total_2210_jobs", "it_specialist_jobs",
                 "it_specialist_percentage", "most_recent_it_specialist",
                 "data_filter", "other_bad_titles"},
     recent |-> [kind |-> "object", keys |-> {"title", "date_posted", "link"}]]

\* faulty variant: a link that was not found is left out of the dictionary
generate_metrics_json_NoLink(js, old) ==
    LET df == DataFrame(js)
        it_jobs == IF TITLE_COL \in df.cols THEN ItJobs(df) ELSE {}
    IN {[raised |-> FALSE,
         file |-> IF it_jobs = {}
                  THEN [WrittenMetrics EXCEPT !.recent.keys = @ \ {"link"}]
                  ELSE WrittenMetrics]}

\* generate_metrics_json(df) for the DataFrame of the jobs js: the metrics
\* file afterwards, given the file before, and whether the call raised.
\* A title column with a job that lacks the key holds NaN there, and
\* is_it_specialist(nan) raises AttributeError.  idxmax over a date column
\* without any parseable date returns NaN or raises ValueError, by the
\* version of pandas.
generate_metrics_json(js, old) ==
    LET df == DataFrame(js)
        nan_title == /\ TITLE_COL \in df.cols
                     /\ \E i \in DOMAIN js : TITLE_COL \notin js[i].keys
        it_jobs == IF TITLE_COL \in df.cols THEN ItJobs(df) ELSE {}
        date_col == IF START_COL \in df.cols THEN START_COL
                    ELSE IF PUB_COL \in df.cols THEN PUB_COL ELSE NULL
        all_NaT == /\ date_col # NULL
                   /\ \A r \in it_jobs :
                         to_datetime(IF date_col = START_COL THEN r.start ELSE r.pub) = NaT
    IN IF nan_title THEN {[raised |-> TRUE, file |-> old]}
       ELSE IF it_jobs # {} /\ all_NaT
       THEN {[raised |-> TRUE, file |-> old], [raised |-> FALSE, file |-> WrittenMetrics]}
       ELSE {[raised |-> FALSE, file |-> WrittenMetrics]}

JobKeySets == {AllCols, AllCols \ {TITLE_COL}, AllCols \ {START_COL}}

JobValues ==
    [id : {"1"}, uri : {UriJob1}, title : {TitleItSpec, TitleManager},
     start : {NullCell, TextCell, DateCell(cutoff_date - 1), DateCell(cutoff_date)},
     pub : {NullCell, DateCell(cutoff_date - 1), DateCell(cutoff_date)}]

JobRecords ==
    {[keys |-> k, id |-> Project(v, k).id, uri |-> Project(v, k).uri,
      title |-> Project(v, k).title, start |-> Project(v, k).start,
      pub |-> Project(v, k).pub] : k \in JobKeySets, v \in JobValues}

JobLists == UNION {[1..n -> JobRecords] : n \in 0..MaxJobs}

\* fetch_2210_jobs.main, from the list the search returned
FetchMain ==
    /\ pc = "fetch"
    /\ LET kept == filter_jobs_since_october(jobs)
       IN IF kept = <<>>
          THEN /\ pc' = "nojobs"
               /\ UNCHANGED <<parquet, metrics, exit_code>>
          ELSE /\ parquet' = ParquetFile(DataFrame(kept))
               /\ \E o \in generate_metrics_json(kept, metrics) :
                     /\ metrics' = o.file
                     /\ exit_code' = IF o.raised THEN 1 ELSE 0
               /\ pc' = "written"
    /\ UNCHANGED <<baseline, all_passed, results, start_baseline, reported, calls,
                   job_title, jobs, request, activities, failed_agencies, summary>>

\* test_october_filter() on what the fetcher wrote
VerifyCutoff ==
    /\ pc = "written"
    /\ pc' = "cutoff_checked"
    /\ results' = <<test_october_filter(parquet)>>
    /\ UNCHANGED <<parquet, metrics, baseline, all_passed, exit_code, start_baseline,
                   reported, calls, job_title, fetcherVars>>

\* test_metrics_json() on what the fetcher wrote
VerifyMetrics ==
    /\ pc = "written"
    /\ pc' = "metrics_checked"
    /\ LET r == test_metrics_json(metrics)
       IN results' = <<r.ok>> /\ reported' = r.named
    /\ UNCHANGED <<parquet, metrics, baseline, all_passed, exit_code, start_baseline,
                   calls, job_title, fetcherVars>>

InitFetch ==
    /\ parquet = MissingFile
    /\ metrics = MissingMetrics
    /\ baseline = NoBaseline
    /\ pc = "fetch"
    /\ all_passed = TRUE
    /\ results = <<>>
    /\ exit_code = NoExit
    /\ start_baseline = baseline
    /\ reported = {}
    /\ calls = <<>>
    /\ job_title = NoTitle
    /\ jobs \in JobLists
    /\ request = NoRequest
    /\ activities = <<>>
    /\ failed_agencies = <<>>
    /\ summary = NoSummary

SpecFetch == InitFetch /\ [][FetchMain \/ VerifyCutoff \/ VerifyMetrics]_vars

(***************************************************************************)
(* The GitHub activity fetcher (fetch_github_activity.py).  A reply is     *)
(* what one requests.get gives: a response with its status code and its    *)
(* X-RateLimit-Remaining header, or a RequestException.                    *)
(***************************************************************************)
MaxRetries == 3

Replies ==
    [kind : {"response"}, status_code : {200, 403, 404, 409, 500}, remaining : {0, 1}]
    \cup {[kind |-> "exception", status_code |-> 0, remaining |-> 0]}

\* make_github_request(url, headers, params, max_retries) is entered
NewRequest(max_retries) ==
    [max_retries |-> max_retries, attempt |-> 0, replies |-> <<>>,
     outcome |-> "pending", status_code |-> 0]

\* faulty variant: a 404 is handled like any other error status
make_github_request_pass_Retries404(req, r) ==
    LET last == req.attempt = req.max_retries - 1
        logged == [req EXCEPT !.replies = Append(@, r)]
        again == [logged EXCEPT !.attempt = @ + 1]
        returned == [logged EXCEPT !.outcome = "response", !.status_code = r.status_code]
        failed == IF last THEN [logged EXCEPT !.outcome = "raised"] ELSE again
    IN IF r.kind = "exception" THEN failed
       ELSE IF r.status_code = 403 /\ r.remaining = 0
       THEN IF last THEN [logged EXCEPT !.outcome = "none"] ELSE again
       ELSE IF r.status_code = 409 THEN returned
       ELSE IF r.status_code >= 400 THEN failed
       ELSE returned

\* one pass of the for loop of make_github_request, with the reply r of its
\* requests.get: the request afterwards.  outcome is "response" when the
\* function returned the response, "raised" when it re-raised the
\* exception, "none" when the loop ended and it returned None.
make_github_request_pass(req, r) ==
    LET last == req.attempt = req.max_retries - 1
        logged == [req EXCEPT !.replies = Append(@, r)]
        again == [logged EXCEPT !.attempt = @ + 1]
        returned == [logged EXCEPT !.outcome = "response", !.status_code = r.status_code]
        failed == IF last THEN [logged EXCEPT !.outcome = "raised"] ELSE again
    IN IF r.kind = "exception" THEN failed
       ELSE IF r.status_code = 403 /\ r.remaining = 0
       THEN IF last THEN [logged EXCEPT !.outcome = "none"] ELSE again
       ELSE IF r.status_code = 404 THEN returned
       ELSE IF r.status_code = 409 THEN returned
       ELSE IF r.status_code >= 400 THEN failed
       ELSE returned

\* requests.get answers and the loop body runs
Attempt ==
    /\ request.outcome = "pending"
    /\ \E r \in Replies : request' = make_github_request_pass(request, r)
    /\ UNCHANGED <<parquet, metrics, baseline, pc, all_passed, results, exit_code,
                   start_baseline, reported, calls, job_title, jobs, activities,
                   failed_agencies, summary>>

InitRequest ==
    /\ parquet = MissingFile
    /\ metrics = MissingMetrics
    /\ baseline = NoBaseline
    /\ pc = "request"
    /\ all_passed = TRUE
    /\ results = <<>>
    /\ exit_code = NoExit
    /\ start_baseline = baseline
    /\ reported = {}
    /\ calls = <<>>
    /\ job_title = NoTitle
    /\ jobs = <<>>
    /\ \E m \in 1..MaxRetries : request = NewRequest(m)
    /\ activities = <<>>
    /\ failed_agencies = <<>>
    /\ summary = NoSummary

\* every sleep of make_github_request ends and every requests.get answers
\* or times out (timeout=30)
SpecRequest == InitRequest /\ [][Attempt]_vars /\ WF_vars(Attempt)

\* the default max_retries=3 of make_github_request, which every call takes
default_max_retries == 3

MaxAgencies == 2

\* the first organisations of FEDERAL_AGENCIES, in its order
Agencies == SubSeq(<<"usds", "18f", "nasa", "deptofdefense">>, 1, MaxAgencies)

\* `return {}` of get_org_activity: a dictionary without the key 'exists'
EmptyDict ==
    [has_exists |-> FALSE, exists |-> FALSE, total_repos |-> 0,
     total_commits |-> 0, total_prs |-> 0]

\* the activity dictionary returned for a 404 of the organisation
MissingOrg ==
    [has_exists |-> TRUE, exists |-> FALSE, total_repos |-> 0,
     total_commits |-> 0, total_prs |-> 0]

\* the activity dictionaries returned after the loop over the repositories:
\* the counts are what the commits and pulls requests gave; a request of the
\* loop that raises or returns None skips the repository
ScannedOrgs ==
    [has_exists : {TRUE}, exists : {TRUE}, total_repos : {1},
     total_commits : {0, 5, 20, 100}, total_prs : {0, 5}]

calculate_activity_level(activity_data) ==
    IF ~activity_data.exists THEN "dead"
    ELSE LET total_activity == activity_data.total_commits + activity_data.total_prs
         IN IF total_activity >= 100 THEN "high"
            ELSE IF total_activity >= 20 THEN "medium"
            ELSE IF total_activity >= 5 THEN "low"
            ELSE "dead"

\* generate_activity_json(activities): the summary file it writes
generate_activity_json(acts) ==
    [written |-> TRUE,
     agencies |->
        [i \in 1..Len(Agencies) |->
            LET activity == IF i <= Len(acts) THEN acts[i] ELSE EmptyDict
            IN IF ~activity.has_exists \/ ~activity.exists
               THEN [org_name |-> Agencies[i], activity_level |-> "dead", repos |-> 0,
                     commits |-> 0, prs |-> 0, exists |-> FALSE]
               ELSE [org_name |-> Agencies[i],
                     activity_level |-> calculate_activity_level(activity),
                     repos |-> activity.total_repos,
                     commits |-> activity.total_commits,
                     prs |-> activity.total_prs, exists |-> TRUE]]]

\* faulty variant: an organisation that is confirmed missing counts as failed
Returns_MissingCountsAsFailed(activity) ==
    /\ activities' = Append(activities, activity)
    /\ failed_agencies' =
          IF ~activity.exists
          THEN Append(failed_agencies, Agencies[Len(activities) + 1])
          ELSE failed_agencies
    /\ request' = NoRequest
    /\ pc' = "main"
    /\ UNCHANGED <<exit_code, summary>>

\* get_org_activity returns activity to the loop of main, which stores it
\* and notes the agency as failed when the key 'exists' is absent
Returns(activity) ==
    /\ activities' = Append(activities, activity)
    /\ failed_agencies' =
          IF ~activity.exists /\ ~activity.has_exists
          THEN Append(failed_agencies, Agencies[Len(activities) + 1])
          ELSE failed_agencies
    /\ request' = NoRequest
    /\ pc' = "main"
    /\ UNCHANGED <<exit_code, summary>>

\* an exception that no except clause of the file catches: the process ends
\* with a traceback and status 1
Crashes ==
    /\ pc' = "crashed"
    /\ exit_code' = 1
    /\ request' = NoRequest
    /\ UNCHANGED <<activities, failed_agencies, summary>>

verifierVars ==
    <<parquet, metrics, baseline, all_passed, results, start_baseline, reported,
      calls, job_title, jobs>>

\* main calls get_org_activity for the next agency, which asks for the
\* organisation
CallOrgActivity ==
    /\ pc = "main"
    /\ Len(activities) < Len(Agencies)
    /\ request' = NewRequest(default_max_retries)
    /\ pc' = "org"
    /\ UNCHANGED <<exit_code, activities, failed_agencies, summary>>
    /\ UNCHANGED verifierVars

\* make_github_request(org_url) has ended
OrgAnswered ==
    /\ pc = "org"
    /\ request.outcome \in {"response", "raised", "none"}
    /\ IF request.outcome = "none"
       THEN Crashes                    \* None.status_code: AttributeError
       ELSE IF request.outcome = "raised"
       THEN Returns(EmptyDict)
       ELSE IF request.status_code = 404
       THEN Returns(MissingOrg)
       ELSE /\ request' = NewRequest(default_max_retries)
            /\ pc' = "repos"
            /\ UNCHANGED <<exit_code, activities, failed_agencies, summary>>
    /\ UNCHANGED verifierVars

\* make_github_request(repos_url) has ended; the loop over the repositories
ReposAnswered ==
    /\ pc = "repos"
    /\ request.outcome \in {"response", "raised", "none"}
    /\ IF request.outcome = "none"
       THEN Crashes                    \* None.json(): AttributeError
       ELSE IF request.outcome = "raised"
       THEN Returns(EmptyDict)
       ELSE IF request.status_code \in {404, 409}
       THEN Crashes                    \* the error body is a dict: repo['name'] is a TypeError
       ELSE \E activity \in ScannedOrgs : Returns(activity)
    /\ UNCHANGED verifierVars

\* the end of main: exit(1) when an agency failed, the summary otherwise
MainEnd ==
    /\ pc = "main"
    /\ Len(activities) = Len(Agencies)
    /\ IF failed_agencies # <<>>
       THEN /\ pc' = "exited"
            /\ exit_code' = 1
            /\ UNCHANGED summary
       ELSE /\ summary' = generate_activity_json(activities)
            /\ pc' = "finished"
            /\ exit_code' = 0
    /\ UNCHANGED <<request, activities, failed_agencies>>
    /\ UNCHANGED verifierVars

InitGithub ==
    /\ parquet = MissingFile
    /\ metrics = MissingMetrics
    /\ baseline = NoBaseline
    /\ pc = "main"
    /\ all_passed = TRUE
    /\ results = <<>>
    /\ exit_code = NoExit
    /\ start_baseline = baseline
    /\ reported = {}
    /\ calls = <<>>
    /\ job_title = NoTitle
    /\ FetchersIdle

SpecGithub ==
    InitGithub
    /\ [][CallOrgActivity \/ Attempt \/ OrgAnswered \/ ReposAnswered \/ MainEnd]_vars

(***************************************************************************)
(* Properties                                                              *)
(***************************************************************************)
StoredDate(b) == to_datetime(b.most_recent_it_specialist_date)

\* C1: a run of run_tests that returns failure leaves the baseline file as
\* it was when the run began, "no baseline" included.
C1_FailedRunKeepsBaseline ==
    (pc = "done" /\ exit_code = 1) => baseline = start_baseline

\* C2 as stated: with a stored baseline of the active filter whose
\* identifiers B are not all among the dataset's identifiers C, the loss
\* check fails and reports exactly B minus C.
C2_ReportsExactlyLost ==
    (/\ pc = "returned"
     /\ parquet.status = "ok"
     /\ start_baseline.exists
     /\ baseline_filter(start_baseline) = current_filter
     /\ start_baseline.job_ids \ ExtractIds(parquet.df) # {})
    => /\ results[1] = FALSE
       /\ reported = start_baseline.job_ids \ ExtractIds(parquet.df)

\* C2 amended: in that case the loss check fails; if C is empty it reports
\* no identifier, otherwise it reports identifiers of B minus C only, all of
\* them when they are at most 10 and 10 of them when they are more.
C2_ReportsLostUpToTen ==
    (/\ pc = "returned"
     /\ parquet.status = "ok"
     /\ start_baseline.exists
     /\ baseline_filter(start_baseline) = current_filter
     /\ start_baseline.job_ids \ ExtractIds(parquet.df) # {})
    => LET B == start_baseline.job_ids
           C == ExtractIds(parquet.df)
       IN /\ results[1] = FALSE
          /\ (C = {}) => (reported = {})
          /\ (C # {}) => (reported \subseteq B \ C)
          /\ (C # {} /\ Cardinality(B \ C) <= 10) => (reported = B \ C)
          /\ (C # {} /\ Cardinality(B \ C) > 10) => (Cardinality(reported) = 10)

\* eleven identifiers are lost and ten of them are reported
C2_Witness ==
    /\ pc = "returned"
    /\ parquet.status = "ok"
    /\ baseline_filter(start_baseline) = current_filter
    /\ ExtractIds(parquet.df) # {}
    /\ Cardinality(start_baseline.job_ids \ ExtractIds(parquet.df)) = 11
    /\ Cardinality(reported) = 10
    /\ results[1] = FALSE

\* C3: under the one filter the verifier ever uses, an identifier in the
\* baseline when a run begins is in the baseline at every later point of
\* the run, so the stored identifier set never shrinks from run to run.
C3_IdentifiersNeverShrink ==
    (start_baseline.exists /\ start_baseline.data_filter # old_filter)
    => start_baseline.job_ids \subseteq baseline.job_ids

\* C4: a baseline the verifier has saved carries the active filter
\* description in data_filter (here: the baseline after a run that passed,
\* which update_baseline has just saved).
C4_SavedBaselineHasFilter ==
    (pc = "done" /\ exit_code = 0) => baseline.data_filter = current_filter

\* C5: run_tests returns 0 exactly when the five checks all returned true,
\* and 1 otherwise.
C5_ExitZeroIffAllPass ==
    pc = "done" =>
        /\ Len(results) = 5
        /\ exit_code \in {0, 1}
        /\ exit_code = 0 <=> \A i \in 1..5 : results[i]

\* only the last check failed and the run returned 1
C5_Witness ==
    /\ pc = "done"
    /\ exit_code = 1
    /\ results = <<TRUE, TRUE, TRUE, TRUE, FALSE>>

\* C6: after a run in which the five checks passed the baseline file is the
\* snapshot of the current dataset: its identifiers, its number of records
\* and the latest date of its IT-specialist records (null if there is none).
C6_PassedRunStoresSnapshot ==
    (pc = "done" /\ exit_code = 0) =>
        LET df == parquet.df
            it_dates ==
                {d \in 0..(MaxDay + cutoff_date + 1) :
                    \E r \in DOMAIN df.rows :
                        /\ TITLE_COL \in df.cols
                        /\ is_it_specialist(r.title)
                        /\ \/ START_COL \in df.cols /\ r.start = DateCell(d)
                           \/ PUB_COL \in df.cols /\ r.pub = DateCell(d)}
        IN /\ parquet.status = "ok"
           /\ baseline.exists
           /\ baseline.job_ids = ExtractIds(df)
           /\ baseline.total_jobs = DfLen(df)
           /\ (it_dates = {}) => (baseline.most_recent_it_specialist_date = NullCell)
           /\ (it_dates # {}) =>
                 (/\ baseline.most_recent_it_specialist_date.k = "date"
                  /\ baseline.most_recent_it_specialist_date.v \in it_dates
                  /\ \A d \in it_dates : d <= baseline.most_recent_it_specialist_date.v)

\* a baseline of the active filter was compared and then replaced by a
\* snapshot with more identifiers and a later date
C6_Witness ==
    /\ pc = "done"
    /\ exit_code = 0
    /\ start_baseline.exists
    /\ start_baseline.data_filter = current_filter
    /\ start_baseline.job_ids # {}
    /\ baseline.job_ids # start_baseline.job_ids
    /\ baseline.total_jobs = 2
    /\ StoredDate(baseline) = cutoff_date + 1

\* C7: with a baseline and a latest IT-specialist date in the dataset, the
\* date check fails exactly when the baseline stores a date and the
\* dataset's latest date is strictly earlier; an equal or later date and a
\* baseline without a date pass.
C7_DateCheckFailsIffEarlier ==
    (/\ pc = "returned"
     /\ parquet.status = "ok"
     /\ start_baseline.exists
     /\ MaxItDate(parquet.df) # NaT)
    => (results[1] = FALSE
        <=> /\ start_baseline.most_recent_it_specialist_date # NullCell
            /\ MaxItDate(parquet.df) < StoredDate(start_baseline))

\* the dataset's latest date equals the stored one and the check passes
C7_Witness ==
    /\ pc = "returned"
    /\ parquet.status = "ok"
    /\ start_baseline.exists
    /\ MaxItDate(parquet.df) # NaT
    /\ MaxItDate(parquet.df) = StoredDate(start_baseline)
    /\ results[1] = TRUE

\* C8: a run whose dataset's latest IT-specialist date is strictly earlier
\* than the date the baseline stored when the run began returns failure
\* and leaves the stored date as it was.
C8_StoredDateNeverMovesBack ==
    (/\ pc = "done"
     /\ parquet.status = "ok"
     /\ start_baseline.exists
     /\ start_baseline.data_filter # old_filter
     /\ MaxItDate(parquet.df) # NaT
     /\ StoredDate(start_baseline) # NaT
     /\ MaxItDate(parquet.df) < StoredDate(start_baseline))
    => /\ exit_code = 1
       /\ StoredDate(baseline) = StoredDate(start_baseline)

C10_MetricsCheckAsStated ==
    pc = "returned" =>
        LET missing ==
                {"total_2210_jobs", "it_specialist_jobs", "it_specialist_percentage",
                 "most_recent_it_specialist"} \ metrics.fields
        IN IF metrics.status = "missing" THEN results[1] = FALSE
           ELSE IF missing # {} THEN results[1] = FALSE /\ reported = missing
           ELSE IF ~ ({"title", "date_posted", "link"} \subseteq metrics.recent.keys)
           THEN results[1] = FALSE
           ELSE results[1] = TRUE

\* C10 amended: the metrics check also fails, naming no field, if reading
\* the file raises (it is not valid JSON); and it fails if
\* most_recent_it_specialist is null.
C10_MetricsCheck ==
    pc = "returned" =>
        LET missing ==
                {"total_2210_jobs", "it_specialist_jobs", "it_specialist_percentage",
                 "most_recent_it_specialist"} \ metrics.fields
        IN IF metrics.status = "missing" THEN results[1] = FALSE
           ELSE IF metrics.status = "malformed"
           THEN results[1] = FALSE /\ reported = {}
           ELSE IF missing # {} THEN results[1] = FALSE /\ reported = missing
           ELSE IF metrics.recent.kind = "null" THEN results[1] = FALSE
           ELSE IF ~ ({"title", "date_posted", "link"} \subseteq metrics.recent.keys)
           THEN results[1] = FALSE
           ELSE results[1] = TRUE

\* only it_specialist_percentage is missing, and it is the field named
C10_Witness ==
    /\ pc = "returned"
    /\ metrics.status = "ok"
    /\ metrics.recent.keys = {"title", "date_posted", "link"}
    /\ results[1] = FALSE
    /\ reported = {"it_specialist_percentage"}

\* C11: a run calls the five checks in the order file validity, job loss,
\* date progression, October filter, metrics JSON whatever the earlier ones
\* returned; update_baseline is called after the fifth and only if the five
\* all returned true.
C11_AllChecksRunInOrder ==
    LET order == <<"test_parquet_file_validity", "test_no_job_loss",
                   "test_date_progression", "test_october_filter",
                   "test_metrics_json">>
        position == [p \in {"test1", "test2", "test3", "test4", "test5", "summary"} |->
                        CASE p = "test1" -> 0 [] p = "test2" -> 1 [] p = "test3" -> 2
                          [] p = "test4" -> 3 [] p = "test5" -> 4 [] p = "summary" -> 5]
    IN /\ pc \in DOMAIN position =>
             /\ Len(results) = position[pc]
             /\ calls = SubSeq(order, 1, position[pc])
       /\ pc = "done" =>
             /\ Len(results) = 5
             /\ calls = IF \A i \in 1..5 : results[i]
                        THEN order \o <<"update_baseline">>
                        ELSE order

\* the first check failed and the four others were still called
C11_Witness ==
    /\ pc = "done"
    /\ results[1] = FALSE
    /\ results[5] = TRUE
    /\ Len(calls) = 5
    /\ calls[5] = "test_metrics_json"

\* C12 as stated: when the dataset file exists and no baseline is stored or
\* the stored filter description differs from the active one, the
\* no-record-loss check passes and the baseline afterwards is a snapshot of
\* the current dataset.
C12_ResetStoresSnapshot ==
    (/\ pc = "returned"
     /\ parquet.status # "missing"
     /\ (~start_baseline.exists \/ baseline_filter(start_baseline) # current_filter))
    => (/\ results[1] = TRUE
        /\ parquet.status = "ok"
        /\ baseline = Snapshot(parquet.df))

\* C12: in that case the check passes and names no identifier; the baseline
\* afterwards is a snapshot of the current dataset when the file can be
\* read, and is what it was before when the file exists but cannot be read.
C12_ResetStoresSnapshotIfReadable ==
    (/\ pc = "returned"
     /\ parquet.status # "missing"
     /\ (~start_baseline.exists \/ baseline_filter(start_baseline) # current_filter))
    => (/\ results[1] = TRUE
        /\ reported = {}
        /\ (parquet.status = "ok") => (baseline = Snapshot(parquet.df))
        /\ (parquet.status = "corrupt") => (baseline = start_baseline))

\* a baseline under another filter held an identifier the dataset has lost:
\* the check passed and the old baseline was replaced
C12_Witness ==
    /\ pc = "returned"
    /\ parquet.status = "ok"
    /\ start_baseline.exists
    /\ baseline_filter(start_baseline) # current_filter
    /\ ExtractIds(parquet.df) # {}
    /\ start_baseline.job_ids \ ExtractIds(parquet.df) # {}
    /\ results[1] = TRUE
    /\ baseline = Snapshot(parquet.df)
    /\ baseline # start_baseline

\* C13: with a stored baseline under the active filter and a readable dataset
\* in which neither the PositionID column nor the PositionURI column yields
\* an identifier, the no-record-loss check fails and leaves the baseline alone.
C13_NoIdentifierSourceFails ==
    LET rows == DOMAIN parquet.df.rows
        fromIdCol == ID_COL \in parquet.df.cols /\ \E r \in rows : r.id # NULL
        fromUriCol == /\ ID_COL \notin parquet.df.cols
                      /\ URI_COL \in parquet.df.cols
                      /\ \E r \in rows : r.uri # <<>> /\ HasJobPart(r.uri)
    IN (/\ pc = "returned"
        /\ parquet.status = "ok"
        /\ start_baseline.exists
        /\ baseline_filter(start_baseline) = current_filter
        /\ ~fromIdCol
        /\ ~fromUriCol)
       => (/\ results[1] = FALSE
           /\ baseline = start_baseline)

\* the baseline holds no identifier, so nothing can be lost, and the dataset
\* has rows but neither identifier column: the check failed
C13_Witness ==
    /\ pc = "returned"
    /\ parquet.status = "ok"
    /\ DfLen(parquet.df) > 0
    /\ ID_COL \notin parquet.df.cols
    /\ URI_COL \notin parquet.df.cols
    /\ start_baseline.exists
    /\ baseline_filter(start_baseline) = current_filter
    /\ start_baseline.job_ids = {}
    /\ results[1] = FALSE

\* C14: when the latest dataset file is missing or cannot be read, the
\* baseline file is what it was when the run began at every step of the run,
\* and the run ends with exit status 1.
C14_BadFileFailsRunKeepsBaseline ==
    (parquet.status \in {"missing", "corrupt"})
    => (/\ baseline = start_baseline
        /\ (Len(results) >= 1) => (results[1] = FALSE)
        /\ (pc \in {"summary", "done"}) => (all_passed = FALSE)
        /\ (pc = "done") => (exit_code = 1))

\* an unreadable file and no baseline: the loss check went through its
\* create-a-baseline branch, no baseline exists afterwards, the run failed
C14_Witness ==
    /\ pc = "done"
    /\ parquet.status = "corrupt"
    /\ ~start_baseline.exists
    /\ results[2] = TRUE
    /\ ~baseline.exists
    /\ exit_code = 1

\* "it" as a token of its own: bounded on each side by a space or an end of
\* the string
StandaloneIt(l) ==
    \E i \in 1..(Len(l) - 1) :
        /\ l[i] = "i"
        /\ l[i + 1] = "t"
        /\ (i = 1 \/ l[i - 1] = " ")
        /\ (i + 1 = Len(l) \/ l[i + 2] = " ")

\* C15: is_it_specialist returns true exactly when the lowercased title
\* contains "itspec", or contains both "it" and "spec", or contains
\* "specialist" together with a standalone "it" or with "information
\* technology"; it returns false for every other input.
C15_TrueExactlyByTheRules ==
    (pc = "returned")
    => (results[1] =
           (/\ job_title # NoTitle
            /\ LET l == lower(job_title)
                   specialist == <<"s","p","e","c","i","a","l","i","s","t">>
                   info_tech == <<"i","n","f","o","r","m","a","t","i","o","n"," ",
                                  "t","e","c","h","n","o","l","o","g","y">>
               IN \/ Contains(<<"i","t","s","p","e","c">>, l)
                  \/ Contains(<<"i","t">>, l) /\ Contains(<<"s","p","e","c">>, l)
                  \/ /\ Contains(specialist, l)
                     /\ (StandaloneIt(l) \/ Contains(info_tech, l))))

\* a title without "it" anywhere, accepted for "information technology" and
\* "specialist"
C15_Witness ==
    /\ pc = "returned"
    /\ job_title # NoTitle
    /\ ~Contains(<<"i","t">>, lower(job_title))
    /\ results[1] = TRUE

\* C16 as stated: for every title s, is_it_specialist gives the same answer
\* for s, s.upper() and s.lower().
C16_CaseInsensitive ==
    (pc = "cases") => (results[1] = results[2] /\ results[2] = results[3])

\* C16: for every title s without a dotless i, is_it_specialist gives the
\* same answer for s, s.upper() and s.lower().
C16_CaseInsensitiveAscii ==
    (/\ pc = "cases"
     /\ \A i \in 1..Len(job_title) : job_title[i] # DotlessI)
    => (results[1] = results[2] /\ results[2] = results[3])

\* a mixed-case title: it differs from both of its case forms and the three
\* are all accepted
C16_Witness ==
    /\ pc = "cases"
    /\ \A i \in 1..Len(job_title) : job_title[i] # DotlessI
    /\ job_title # upper(job_title)
    /\ job_title # lower(job_title)
    /\ results = <<TRUE, TRUE, TRUE>>

\* C17: for a null title and for the empty string is_it_specialist returns
\* false and has evaluated none of its substring rules.
C17_NullOrEmptyIsFalse ==
    (pc = "returned" /\ (job_title = NoTitle \/ job_title = <<>>))
    => (results[1] = FALSE /\ reported = {})

\* the null title was classified
C17_Witness ==
    /\ pc = "returned"
    /\ job_title = NoTitle
    /\ FetchersIdle
    /\ results = <<FALSE>>
    /\ reported = {}

\* C18: a title whose lowercased form does not contain "spec" is classified
\* false, with or without "IT" or "Information Technology" in it.
C18_NoSpecIsFalse ==
    (/\ pc = "returned"
     /\ ~Contains(<<"s","p","e","c">>, lower(job_title)))
    => (results[1] = FALSE)

\* an "IT ... Manager" title was classified false
C18_Witness ==
    /\ pc = "returned"
    /\ Contains(<<"i","t">>, lower(job_title))
    /\ Contains(<<"m","a","n","a","g","e","r">>, lower(job_title))
    /\ ~Contains(<<"s","p","e","c">>, lower(job_title))
    /\ results[1] = FALSE

\* C19: the date check passes when there is no dataset file or no baseline,
\* and, for a dataset that can be read, when it has no position-title
\* column, no row classified as IT specialist, or no parseable date in the
\* IT-specialist rows.
C19_DateCheckPassesWhenNotEvaluable ==
    LET rows == DOMAIN parquet.df.rows
        it_rows == {r \in rows : is_it_specialist(r.title)}
        no_title_column == TITLE_COL \notin parquet.df.cols
        no_it_row == it_rows = {}
        no_date == \A r \in it_rows :
                      to_datetime(r.start) = NaT /\ to_datetime(r.pub) = NaT
    IN (/\ pc = "returned"
        /\ \/ parquet.status = "missing"
           \/ ~start_baseline.exists
           \/ parquet.status = "ok" /\ (no_title_column \/ no_it_row \/ no_date))
       => (results[1] = TRUE)

\* the baseline stores a date and the IT-specialist rows of the dataset hold
\* text that is no date: the check passed
C19_Witness ==
    /\ pc = "returned"
    /\ parquet.status = "ok"
    /\ start_baseline.exists
    /\ start_baseline.most_recent_it_specialist_date # NullCell
    /\ TITLE_COL \in parquet.df.cols
    /\ \E r \in DOMAIN parquet.df.rows :
          is_it_specialist(r.title) /\ r.start = TextCell
    /\ \A r \in DOMAIN parquet.df.rows :
          is_it_specialist(r.title)
          => (to_datetime(r.start) = NaT /\ to_datetime(r.pub) = NaT)
    /\ results[1] = TRUE

\* C20: the file-validity check of a run passes exactly when the latest
\* dataset file exists, can be read and holds at least one record.
C20_ValidIffReadableAndNonEmpty ==
    (Len(results) >= 1)
    => (results[1] = TRUE
        <=> /\ parquet.status # "missing"
            /\ parquet.status # "corrupt"
            /\ parquet.df.rows # EmptyBag)

\* a readable dataset of zero records failed the check
C20_Witness ==
    /\ Len(results) >= 1
    /\ parquet.status = "ok"
    /\ parquet.df.rows = EmptyBag
    /\ results[1] = FALSE

\* C21: every job filter_jobs_since_october keeps has its parseable
\* PositionStartDate and PublicationStartDate on or after the cutoff, and the
\* cutoff check passes on the dataset the fetcher writes from the kept jobs.
C21_KeptJobsPassCutoffCheck ==
    /\ (pc \in {"written", "cutoff_checked", "metrics_checked"})
       => (\A r \in DOMAIN parquet.df.rows :
              /\ (r.start.k = "date") => (r.start.v >= cutoff_date)
              /\ (r.pub.k = "date") => (r.pub.v >= cutoff_date))
    /\ (pc = "cutoff_checked") => (results[1] = TRUE)

\* C23: every metrics file generate_metrics_json writes, whatever the
\* dataset, has total_2210_jobs, it_specialist_jobs, it_specialist_percentage
\* and most_recent_it_specialist with title, date_posted and link, and the
\* metrics check passes on it.
C23_WrittenMetricsPassCheck ==
    /\ (pc \in {"written", "cutoff_checked", "metrics_checked"} /\ exit_code = 0)
       => (/\ metrics.status = "ok"
           /\ {"total_2210_jobs", "it_specialist_jobs", "it_specialist_percentage",
               "most_recent_it_specialist"} \subseteq metrics.fields
           /\ metrics.recent.kind = "object"
           /\ {"title", "date_posted", "link"} \subseteq metrics.recent.keys)
    /\ (pc = "metrics_checked" /\ exit_code = 0)
       => (results[1] = TRUE /\ reported = {})

\* a dataset without a title column: the metrics were written and pass
C23_Witness ==
    /\ pc = "metrics_checked"
    /\ exit_code = 0
    /\ DfLen(parquet.df) > 0
    /\ TITLE_COL \notin parquet.df.cols
    /\ metrics.status = "ok"
    /\ results[1] = TRUE

\* C22: on the lowercased title t the result of is_it_specialist is
\* ("it" in t and "spec" in t) or ("information technology" in t and
\* "specialist" in t); the "itspec" rule and the standalone-"it" rule add
\* nothing, and a title with "it" and "spec" anywhere is classified true.
C22_TwoRulesDecide ==
    (pc = "returned")
    => LET t == lower(job_title)
           it_and_spec == /\ Contains(<<"i","t">>, t)
                          /\ Contains(<<"s","p","e","c">>, t)
           info_tech_specialist ==
               /\ Contains(<<"i","n","f","o","r","m","a","t","i","o","n"," ",
                             "t","e","c","h","n","o","l","o","g","y">>, t)
               /\ Contains(<<"s","p","e","c","i","a","l","i","s","t">>, t)
       IN IF job_title = NoTitle
          THEN results[1] = FALSE
          ELSE results[1] = (it_and_spec \/ info_tech_specialist)

\* a manager title with "it" and "spec" apart and without "specialist" was
\* classified true
C22_Witness ==
    /\ pc = "returned"
    /\ job_title # NoTitle
    /\ Contains(<<"m","a","n","a","g","e","r">>, lower(job_title))
    /\ ~Contains(<<"i","t","s","p","e","c">>, lower(job_title))
    /\ ~Contains(<<"s","p","e","c","i","a","l","i","s","t">>, lower(job_title))
    /\ results[1] = TRUE

\* the reply is the rate-limit answer: status 403 with no request remaining
RateLimited(r) == r.kind = "response" /\ r.status_code = 403 /\ r.remaining = 0

\* the reply is a response make_github_request hands back: a 404, a 409 or
\* a success
HandedBack(r) ==
    /\ r.kind = "response"
    /\ ~RateLimited(r)
    /\ (r.status_code \in {404, 409} \/ r.status_code < 400)

\* what holds of a call of make_github_request at every moment
RequestWithinAttempts ==
    LET n == Len(request.replies)
        final == request.replies[n]
    IN /\ n <= request.max_retries
       /\ \A i \in 1..(n - 1) : ~HandedBack(request.replies[i])
       /\ (request.outcome = "pending")
          => (n < request.max_retries /\ (n > 0 => ~HandedBack(final)))
       /\ (request.outcome = "response")
          => (HandedBack(final) /\ request.status_code = final.status_code)
       /\ (request.outcome = "raised")
          => (n = request.max_retries /\ ~HandedBack(final) /\ ~RateLimited(final))
       /\ (request.outcome = "none")
          => (n = request.max_retries /\ RateLimited(final))

\* C24: make_github_request ends after at most max_retries attempts, a
\* rate-limit wait and a failed request each using one; a 404, a 409 or a
\* successful response is returned on the attempt it arrives; the exception
\* is re-raised when the last attempt failed; None is returned only when
\* the last attempt hit the rate limit.
C24_RequestEndsWithinAttempts ==
    /\ []RequestWithinAttempts
    /\ <>(request.outcome \in {"response", "raised", "none"})

\* three attempts: a failure, then the rate limit twice, and None returned
C24_Witness ==
    /\ request.max_retries = 3
    /\ Len(request.replies) = 3
    /\ request.replies[1].kind = "exception"
    /\ RateLimited(request.replies[2])
    /\ RateLimited(request.replies[3])
    /\ request.outcome = "none"

\* C25: get_org_activity never raises: when the organisation request or the
\* repository-list request ends in an exception or in None it returns the
\* empty dictionary.
C25_OrgActivityNeverRaises == pc # "crashed"

\* C26: when get_org_activity returned a dictionary without 'exists' for
\* some agency, the summary file is never written and the process ends with
\* status 1; an organisation that is confirmed missing does not end the
\* process that way, and the summary records it with activity_level "dead",
\* zero counts and exists false.
C26_FailedAgencyStopsSummary ==
    LET ended == pc \in {"exited", "crashed", "finished"}
        failed == \E i \in 1..Len(activities) : ~activities[i].has_exists
    IN /\ failed => (~summary.written /\ pc # "finished")
       /\ (failed /\ ended) => (exit_code = 1)
       /\ (~failed /\ ended /\ pc # "crashed")
          => (pc = "finished" /\ exit_code = 0 /\ summary.written)
       /\ (pc = "finished")
          => (\A i \in 1..Len(activities) :
                 (activities[i].has_exists /\ ~activities[i].exists)
                 => (/\ summary.agencies[i].org_name = Agencies[i]
                     /\ summary.agencies[i].activity_level = "dead"
                     /\ summary.agencies[i].repos = 0
                     /\ summary.agencies[i].commits = 0
                     /\ summary.agencies[i].prs = 0
                     /\ summary.agencies[i].exists = FALSE))

\* one agency failed and another is confirmed missing: exit(1), no summary
C26_Witness ==
    /\ pc = "exited"
    /\ exit_code = 1
    /\ ~summary.written
    /\ \E i \in 1..Len(activities) : ~activities[i].has_exists
    /\ \E i \in 1..Len(activities) : activities[i].has_exists /\ ~activities[i].exists

====
